---- MODULE Spec2Model ----
(***************************************************************************)
(* Model of the imf crate: the RFC 5322 token parsers of whitespaces.rs,   *)
(* quoted_string.rs, atom.rs, common.rs and address.rs.  Every parser is a *)
(* function from an input byte slice (and, for the sink-writing forms, a   *)
(* writer) to a ParseResult; the state machine picks a parser and an       *)
(* input, and applies the parser once.                                     *)
(***************************************************************************)
EXTENDS Integers, Sequences, FiniteSets, TLC

(* ------------------------------ bounds --------------------------------- *)
\* longest input slice fed to a parser
MaxLen == 5
\* largest capacity of a bounded sink (a fixed-size byte slice used as writer)
MaxRoom == 1

(* ------------------------------ bytes ---------------------------------- *)
NUL == 0
HT == 9
LF == 10
CR == 13
SP == 32
DQUOTE == 34
LPAREN == 40
RPAREN == 41
DOT == 46
LBRACKET == 91
BACKSLASH == 92
RBRACKET == 93
LOWER_A == 97
DEL == 127
HIGH == 200

(* --------------------------- slices and results ------------------------ *)
\* buf[i] with Rust's 0-based index
At(buf, i) == buf[i + 1]

\* buf[a..b]
Slice(buf, a, b) == SubSeq(buf, a + 1, b)

\* buf[i..]
From(buf, i) == SubSeq(buf, i + 1, Len(buf))

\* Ok((left, read)) = Ok((&buf[i..], &buf[..i]))
parse_ok(buf, i) ==
    [kind |-> "Ok", left |-> From(buf, i), read |-> Slice(buf, 0, i)]

\* Err(ErrorKind::Parsing.into())
ParsingErr == [kind |-> "Parsing", left |-> <<>>, read |-> <<>>]

\* Err(e) for an I/O error of the writer
IoErr == [kind |-> "Io", left |-> <<>>, read |-> <<>>]

\* an index out of bounds: the thread panics
Panic == [kind |-> "Panic", left |-> <<>>, read |-> <<>>]

\* a ParseResult together with the writer as the call left it
WithW(r, w) == [kind |-> r.kind, left |-> r.left, read |-> r.read, w |-> w]

(* ------------------------------ the sink ------------------------------- *)
\* A writer is either a growable Vec (bounded = FALSE) or a fixed-size byte
\* slice with `room` bytes left.  write_all on the slice copies what fits and
\* fails when the data did not fit whole.
NewWriter(bounded, room) == [out |-> <<>>, bounded |-> bounded, room |-> room]

Fits(w, data) == ~w.bounded \/ Len(data) <= w.room

write_all(w, data) ==
    IF ~w.bounded
    THEN [w EXCEPT !.out = @ \o data]
    ELSE IF Len(data) <= w.room
         THEN [w EXCEPT !.out = @ \o data, !.room = @ - Len(data)]
         ELSE [w EXCEPT !.out = @ \o Slice(data, 0, w.room), !.room = 0]

(* ---------------------------- whitespaces.rs --------------------------- *)
\* Each parser is written as its source is, one operator per step: a value
\* that the source binds with `let` or `match` is the last parameter of the
\* operator that continues from there.

\* `if let Ok((_, x)) = r { i += x.len() }`: the length read, 0 on an error
OkLen(r) == IF r.kind = "Ok" THEN Len(r.read) ELSE 0

\* is_wsp with the horizontal tab forgotten
is_wsp_space_only(c) == c = SP

is_wsp(c) == c = SP \/ c = HT

RECURSIVE read_fws_loop(_, _)
read_fws_loop(buf, i) ==
    IF i < Len(buf)
    THEN IF is_wsp(At(buf, i))
         THEN read_fws_loop(buf, i + 1)
         ELSE IF At(buf, i) = CR
              THEN IF i + 2 < Len(buf) /\ At(buf, i + 1) = LF /\ is_wsp(At(buf, i + 2))
                   THEN read_fws_loop(buf, i + 3)
                   ELSE i
              ELSE i
    ELSE i

\* after the loop: `if i == 0 { Err } else { parse_ok(buf, i) }`
read_fws_end(buf, i) == IF i = 0 THEN ParsingErr ELSE parse_ok(buf, i)

read_fws(buf) ==
    IF buf = <<>> THEN ParsingErr ELSE read_fws_end(buf, read_fws_loop(buf, 0))

\* the `b'\r'` arm of unfold_fws once `writer.write_all(&buf[next_write..i])`
\* succeeded and left the writer as w1
RECURSIVE unfold_fws_loop(_, _, _, _)
unfold_fws_cr(buf, i, next_write, w1) ==
    IF i + 2 < Len(buf) /\ At(buf, i + 1) = LF /\ is_wsp(At(buf, i + 2))
    THEN unfold_fws_loop(buf, i + 3, i + 2, w1)
    ELSE [i |-> i, next_write |-> next_write, w |-> w1, io |-> FALSE]

\* the loop of unfold_fws; yields [i, next_write, w, io], io telling that a
\* write failed
unfold_fws_loop(buf, i, next_write, w) ==
    IF i < Len(buf)
    THEN IF is_wsp(At(buf, i))
         THEN unfold_fws_loop(buf, i + 1, next_write, w)
         ELSE IF At(buf, i) = CR
              THEN IF Fits(w, Slice(buf, next_write, i))
                   THEN unfold_fws_cr(buf, i, next_write,
                                      write_all(w, Slice(buf, next_write, i)))
                   ELSE [i |-> i, next_write |-> next_write,
                         w |-> write_all(w, Slice(buf, next_write, i)), io |-> TRUE]
              ELSE [i |-> i, next_write |-> next_write, w |-> w, io |-> FALSE]
    ELSE [i |-> i, next_write |-> next_write, w |-> w, io |-> FALSE]

\* after the loop: the final `writer.write_all(&buf[next_write..i])`
unfold_fws_end(buf, l) ==
    IF l.io
    THEN WithW(IoErr, l.w)
    ELSE IF l.i = 0
         THEN WithW(ParsingErr, l.w)
         ELSE IF Fits(l.w, Slice(buf, l.next_write, l.i))
              THEN WithW(parse_ok(buf, l.i), write_all(l.w, Slice(buf, l.next_write, l.i)))
              ELSE WithW(IoErr, write_all(l.w, Slice(buf, l.next_write, l.i)))

unfold_fws(buf, w) ==
    IF buf = <<>>
    THEN WithW(ParsingErr, w)
    ELSE unfold_fws_end(buf, unfold_fws_loop(buf, 0, 0, w))

\* one iteration of read_comment's loop that leaves i alone on a byte that is
\* no backslash and no parenthesis
read_comment_body_no_advance(buf, f) ==
    IF At(buf, f.i) = BACKSLASH
    THEN [returns |-> FALSE, i |-> f.i + 2, nested_level |-> f.nested_level]
    ELSE IF At(buf, f.i) = RPAREN
         THEN IF f.nested_level - 1 = 0
              THEN [returns |-> TRUE, i |-> f.i + 1, nested_level |-> f.nested_level - 1]
              ELSE [returns |-> FALSE, i |-> f.i + 1, nested_level |-> f.nested_level - 1]
         ELSE IF At(buf, f.i) = LPAREN
              THEN [returns |-> FALSE, i |-> f.i + 1, nested_level |-> f.nested_level + 1]
              ELSE [returns |-> FALSE, i |-> f.i, nested_level |-> f.nested_level]

\* one iteration of read_comment's loop from the locals f = [i, nested_level]:
\* the locals after it, and whether it returned `parse_ok(buf, i + 1)` (i is
\* then the index handed to parse_ok)
read_comment_body(buf, f) ==
    IF At(buf, f.i) = BACKSLASH
    THEN [returns |-> FALSE, i |-> f.i + 2, nested_level |-> f.nested_level]
    ELSE IF At(buf, f.i) = RPAREN
         THEN IF f.nested_level - 1 = 0
              THEN [returns |-> TRUE, i |-> f.i + 1, nested_level |-> f.nested_level - 1]
              ELSE [returns |-> FALSE, i |-> f.i + 1, nested_level |-> f.nested_level - 1]
         ELSE IF At(buf, f.i) = LPAREN
              THEN [returns |-> FALSE, i |-> f.i + 1, nested_level |-> f.nested_level + 1]
              ELSE [returns |-> FALSE, i |-> f.i + 1, nested_level |-> f.nested_level]

RECURSIVE read_comment_loop(_, _, _)
read_comment_loop(buf, i, nested_level) ==
    IF i < Len(buf)
    THEN IF At(buf, i) = BACKSLASH
         THEN read_comment_loop(buf, i + 2, nested_level)
         ELSE IF At(buf, i) = RPAREN
              THEN IF nested_level - 1 = 0
                   THEN parse_ok(buf, i + 1)
                   ELSE read_comment_loop(buf, i + 1, nested_level - 1)
              ELSE IF At(buf, i) = LPAREN
                   THEN read_comment_loop(buf, i + 1, nested_level + 1)
                   ELSE read_comment_loop(buf, i + 1, nested_level)
    ELSE ParsingErr

\* read_comment whose loop steps over a backslash alone, so that the byte
\* after it is looked at
RECURSIVE read_comment_loop_no_escape(_, _, _)
read_comment_loop_no_escape(buf, i, nested_level) ==
    IF i < Len(buf)
    THEN IF At(buf, i) = RPAREN
         THEN IF nested_level - 1 = 0
              THEN parse_ok(buf, i + 1)
              ELSE read_comment_loop_no_escape(buf, i + 1, nested_level - 1)
         ELSE IF At(buf, i) = LPAREN
              THEN read_comment_loop_no_escape(buf, i + 1, nested_level + 1)
              ELSE read_comment_loop_no_escape(buf, i + 1, nested_level)
    ELSE ParsingErr

read_comment_no_escape(buf) ==
    IF Len(buf) < 2
    THEN ParsingErr
    ELSE IF At(buf, 0) # LPAREN
         THEN ParsingErr
         ELSE read_comment_loop_no_escape(buf, 1, 1)

read_comment(buf) ==
    IF Len(buf) < 2
    THEN ParsingErr
    ELSE IF At(buf, 0) # LPAREN
         THEN ParsingErr
         ELSE read_comment_loop(buf, 1, 1)

\* read_cfws that returns after its first comment instead of looping
read_cfws_comment_once(buf, i, comment) ==
    IF comment.kind = "Ok"
    THEN parse_ok(buf, i + Len(comment.read))
    ELSE IF i = 0 THEN ParsingErr ELSE parse_ok(buf, i)

\* `match read_comment(&buf[i..])` of read_cfws, i being past the optional FWS
RECURSIVE read_cfws_loop(_, _)
read_cfws_comment(buf, i, comment) ==
    IF comment.kind = "Ok"
    THEN read_cfws_loop(buf, i + Len(comment.read))
    ELSE IF i = 0 THEN ParsingErr ELSE parse_ok(buf, i)

\* the loop body of read_cfws after `if let Ok((_, fws)) = read_fws(&buf[i..])`
read_cfws_fws(buf, i) == read_cfws_comment(buf, i, read_comment(From(buf, i)))

read_cfws_loop(buf, i) ==
    IF i < Len(buf)
    THEN read_cfws_fws(buf, i + OkLen(read_fws(From(buf, i))))
    ELSE IF i > 0 THEN parse_ok(buf, i) ELSE ParsingErr

read_cfws(buf) ==
    IF buf = <<>> THEN ParsingErr ELSE read_cfws_loop(buf, 0)

\* replace_cfws that writes the run it read instead of one space
replace_cfws_write_echo(res, w) ==
    IF res.kind # "Ok"
    THEN WithW(res, w)
    ELSE IF Fits(w, res.read)
         THEN WithW(res, write_all(w, res.read))
         ELSE WithW(IoErr, write_all(w, res.read))

\* `let res = read_cfws(buf)?; writer.write_all(&b" "[..])?; Ok(res)`
replace_cfws_write(res, w) ==
    IF res.kind # "Ok"
    THEN WithW(res, w)
    ELSE IF Fits(w, <<SP>>)
         THEN WithW(res, write_all(w, <<SP>>))
         ELSE WithW(IoErr, write_all(w, <<SP>>))

replace_cfws(buf, w) == replace_cfws_write(read_cfws(buf), w)

\* replace_fws that reads the run and writes nothing
replace_fws_write_nothing(res, w) == WithW(res, w)

\* `let res = read_fws(buf)?; writer.write_all(&b" "[..])?; Ok(res)`
replace_fws_write(res, w) ==
    IF res.kind # "Ok"
    THEN WithW(res, w)
    ELSE IF Fits(w, <<SP>>)
         THEN WithW(res, write_all(w, <<SP>>))
         ELSE WithW(IoErr, write_all(w, <<SP>>))

replace_fws(buf, w) == replace_fws_write(read_fws(buf), w)

\* `match read_comment(&buf[i..])` of unfold_cfws, i being past the optional FWS
RECURSIVE unfold_cfws_loop(_, _, _)
unfold_cfws_comment(buf, i, comment, w) ==
    IF comment.kind = "Ok"
    THEN unfold_cfws_loop(buf, i + Len(comment.read), w)
    ELSE IF i = 0 THEN WithW(ParsingErr, w) ELSE WithW(parse_ok(buf, i), w)

\* `match unfold_fws(&buf[i..], writer)` of unfold_cfws: a Parsing error is
\* ignored, any other error is returned
unfold_cfws_fws(buf, i, fws) ==
    IF fws.kind = "Ok" \/ fws.kind = "Parsing"
    THEN unfold_cfws_comment(buf, i + OkLen(fws),
                             read_comment(From(buf, i + OkLen(fws))), fws.w)
    ELSE WithW([kind |-> fws.kind, left |-> <<>>, read |-> <<>>], fws.w)

unfold_cfws_loop(buf, i, w) ==
    IF i < Len(buf)
    THEN unfold_cfws_fws(buf, i, unfold_fws(From(buf, i), w))
    ELSE IF i > 0 THEN WithW(parse_ok(buf, i), w) ELSE WithW(ParsingErr, w)

unfold_cfws(buf, w) ==
    IF buf = <<>> THEN WithW(ParsingErr, w) ELSE unfold_cfws_loop(buf, 0, w)

(* --------------------------- quoted_string.rs -------------------------- *)
is_valid_qtext(c) ==
    /\ c > NUL
    /\ c <= DEL
    /\ c # HT
    /\ c # LF
    /\ c # CR
    /\ c # SP
    /\ c # DQUOTE
    /\ c # BACKSLASH

\* the escape arm with `last_write = i`: the backslash is written too
RECURSIVE parse_qcontent_loop(_, _, _, _)
parse_qcontent_escape_kept(buf, i, last_write, w1) ==
    IF i = Len(buf)
    THEN [kind |-> "Parsing", i |-> i, last_write |-> last_write, w |-> w1]
    ELSE IF ~(i + 1 < Len(buf))
         THEN [kind |-> "Panic", i |-> i, last_write |-> last_write, w |-> w1]
         ELSE IF At(buf, i + 1) > 127
              THEN [kind |-> "Parsing", i |-> i, last_write |-> last_write, w |-> w1]
              ELSE parse_qcontent_loop(buf, i + 2, i, w1)

\* the `b'\\'` arm of parse_qcontent once `writer.write_all(&buf[last_write..i])`
\* succeeded and left the writer as w1; buf[i + 1] is read without a bounds
\* check of its own, so a backslash that ends the input panics
parse_qcontent_escape(buf, i, last_write, w1) ==
    IF i = Len(buf)
    THEN [kind |-> "Parsing", i |-> i, last_write |-> last_write, w |-> w1]
    ELSE IF ~(i + 1 < Len(buf))
         THEN [kind |-> "Panic", i |-> i, last_write |-> last_write, w |-> w1]
         ELSE IF At(buf, i + 1) > 127
              THEN [kind |-> "Parsing", i |-> i, last_write |-> last_write, w |-> w1]
              ELSE parse_qcontent_loop(buf, i + 2, i + 1, w1)

\* the loop of parse_qcontent; yields [kind, i, last_write, w], kind being
\* "break" when the loop ended and the final write is still to do
parse_qcontent_loop(buf, i, last_write, w) ==
    IF i < Len(buf)
    THEN IF is_valid_qtext(At(buf, i))
         THEN parse_qcontent_loop(buf, i + 1, last_write, w)
         ELSE IF At(buf, i) = BACKSLASH
              THEN IF Fits(w, Slice(buf, last_write, i))
                   THEN parse_qcontent_escape(buf, i, last_write,
                                              write_all(w, Slice(buf, last_write, i)))
                   ELSE [kind |-> "Io", i |-> i, last_write |-> last_write,
                         w |-> write_all(w, Slice(buf, last_write, i))]
              ELSE IF i = 0
                   THEN [kind |-> "Parsing", i |-> i, last_write |-> last_write, w |-> w]
                   ELSE [kind |-> "break", i |-> i, last_write |-> last_write, w |-> w]
    ELSE [kind |-> "break", i |-> i, last_write |-> last_write, w |-> w]

\* after the loop: the final `writer.write_all(&buf[last_write..i])`
parse_qcontent_end(buf, l) ==
    IF l.kind = "Io" THEN WithW(IoErr, l.w)
    ELSE IF l.kind = "Parsing" THEN WithW(ParsingErr, l.w)
    ELSE IF l.kind = "Panic" THEN WithW(Panic, l.w)
    ELSE IF Fits(l.w, Slice(buf, l.last_write, l.i))
         THEN WithW(parse_ok(buf, l.i), write_all(l.w, Slice(buf, l.last_write, l.i)))
         ELSE WithW(IoErr, write_all(l.w, Slice(buf, l.last_write, l.i)))

parse_qcontent(buf, w) ==
    IF buf = <<>>
    THEN WithW(ParsingErr, w)
    ELSE parse_qcontent_end(buf, parse_qcontent_loop(buf, 0, 0, w))

\* the `b'\\'` arm of read_qcontent; buf[i + 1] is read without a bounds check
\* of its own, so a backslash that ends the input panics
RECURSIVE read_qcontent_loop(_, _)
read_qcontent_escape(buf, i) ==
    IF i = Len(buf)
    THEN ParsingErr
    ELSE IF ~(i + 1 < Len(buf))
         THEN Panic
         ELSE IF At(buf, i + 1) > 127
              THEN ParsingErr
              ELSE read_qcontent_loop(buf, i + 2)

\* the loop of read_qcontent and the parse_ok after it
read_qcontent_loop(buf, i) ==
    IF i < Len(buf)
    THEN IF is_valid_qtext(At(buf, i))
         THEN read_qcontent_loop(buf, i + 1)
         ELSE IF At(buf, i) = BACKSLASH
              THEN read_qcontent_escape(buf, i)
              ELSE IF i = 0 THEN ParsingErr ELSE parse_ok(buf, i)
    ELSE parse_ok(buf, i)

read_qcontent(buf) == IF buf = <<>> THEN ParsingErr ELSE read_qcontent_loop(buf, 0)

\* `match parse_qcontent(&buf[i..], writer)` of parse_quoted_string
RECURSIVE parse_quoted_string_loop(_, _, _)
parse_quoted_string_qcontent(buf, i, qcontent) ==
    IF qcontent.kind = "Ok"
    THEN parse_quoted_string_loop(buf, i + Len(qcontent.read), qcontent.w)
    ELSE IF qcontent.kind = "Parsing"
         THEN [kind |-> "break", i |-> i, w |-> qcontent.w]
         ELSE [kind |-> qcontent.kind, i |-> i, w |-> qcontent.w]

\* `match replace_fws(&buf[i..], writer)` of parse_quoted_string
parse_quoted_string_fws(buf, i, fws) ==
    IF fws.kind = "Io"
    THEN [kind |-> "Io", i |-> i, w |-> fws.w]
    ELSE parse_quoted_string_qcontent(
             buf, i + OkLen(fws), parse_qcontent(From(buf, i + OkLen(fws)), fws.w))

\* the loop "read *([FWS] qcontent)" of parse_quoted_string; yields [kind, i, w]
parse_quoted_string_loop(buf, i, w) ==
    IF i < Len(buf)
    THEN parse_quoted_string_fws(buf, i, replace_fws(From(buf, i), w))
    ELSE [kind |-> "break", i |-> i, w |-> w]

\* the trailing "read [CFWS]" of parse_quoted_string
parse_quoted_string_tail(buf, i, cfws, w) ==
    IF cfws.kind = "Ok"
    THEN WithW(parse_ok(buf, i + Len(cfws.read)), w)
    ELSE WithW(parse_ok(buf, i), w)

\* the closing quote of parse_quoted_string, l being what the loop yielded
parse_quoted_string_close(buf, l) ==
    IF l.kind = "Io" THEN WithW(IoErr, l.w)
    ELSE IF l.kind = "Panic" THEN WithW(Panic, l.w)
    ELSE IF l.i >= Len(buf) \/ At(buf, l.i) # DQUOTE
         THEN WithW(ParsingErr, l.w)
         ELSE parse_quoted_string_tail(buf, l.i + 1, read_cfws(From(buf, l.i + 1)), l.w)

\* the opening quote of parse_quoted_string, i being past the leading [CFWS]
parse_quoted_string_open(buf, i, w) ==
    IF i >= Len(buf)
    THEN WithW(ParsingErr, w)
    ELSE IF At(buf, i) # DQUOTE
         THEN WithW(ParsingErr, w)
         ELSE parse_quoted_string_close(buf, parse_quoted_string_loop(buf, i + 1, w))

parse_quoted_string(buf, w) == parse_quoted_string_open(buf, OkLen(read_cfws(buf)), w)

\* `match read_qcontent(&buf[i..])` of read_quoted_string
RECURSIVE read_quoted_string_loop(_, _)
read_quoted_string_qcontent(buf, i, qcontent) ==
    IF qcontent.kind = "Ok"
    THEN read_quoted_string_loop(buf, i + Len(qcontent.read))
    ELSE IF qcontent.kind = "Parsing"
         THEN [kind |-> "break", i |-> i]
         ELSE [kind |-> qcontent.kind, i |-> i]

\* `match read_fws(&buf[i..])` of read_quoted_string
read_quoted_string_fws(buf, i, fws) ==
    read_quoted_string_qcontent(
        buf, i + OkLen(fws), read_qcontent(From(buf, i + OkLen(fws))))

\* the loop "read *([FWS] qcontent)" of read_quoted_string; yields [kind, i]
read_quoted_string_loop(buf, i) ==
    IF i < Len(buf)
    THEN read_quoted_string_fws(buf, i, read_fws(From(buf, i)))
    ELSE [kind |-> "break", i |-> i]

\* the trailing "read [CFWS]" of read_quoted_string
read_quoted_string_tail(buf, i, cfws) ==
    IF cfws.kind = "Ok" THEN parse_ok(buf, i + Len(cfws.read)) ELSE parse_ok(buf, i)

\* the closing quote of read_quoted_string, l being what the loop yielded
read_quoted_string_close(buf, l) ==
    IF l.kind = "Panic" THEN Panic
    ELSE IF l.i >= Len(buf) \/ At(buf, l.i) # DQUOTE
         THEN ParsingErr
         ELSE read_quoted_string_tail(buf, l.i + 1, read_cfws(From(buf, l.i + 1)))

\* the opening quote of read_quoted_string, i being past the leading [CFWS]
read_quoted_string_open(buf, i) ==
    IF i >= Len(buf)
    THEN ParsingErr
    ELSE IF At(buf, i) # DQUOTE
         THEN ParsingErr
         ELSE read_quoted_string_close(buf, read_quoted_string_loop(buf, i + 1))

read_quoted_string(buf) == read_quoted_string_open(buf, OkLen(read_cfws(buf)))

(* -------------------------------- atom.rs ------------------------------- *)
is_alphabetical(c) == (c >= 65 /\ c <= 90) \/ (c >= 97 /\ c <= 122)

is_digit(c) == c >= 48 /\ c <= 57

\* ALPHA / DIGIT / ! # $ % & ' * + - / = ? ^ _ ` { | } ~
is_atext(c) ==
    \/ is_alphabetical(c)
    \/ is_digit(c)
    \/ c \in {33, 35, 36, 37, 38, 39, 42, 43, 45, 47, 61, 63, 94, 95, 96, 123, 124, 125, 126}

RECURSIVE read_atom_text_loop(_, _)
read_atom_text_loop(buf, i) ==
    IF i < Len(buf) /\ is_atext(At(buf, i))
    THEN read_atom_text_loop(buf, i + 1)
    ELSE i

read_atom_text_end(buf, i) == IF i = 0 THEN ParsingErr ELSE parse_ok(buf, i)

read_atom_text(buf) == read_atom_text_end(buf, read_atom_text_loop(buf, 0))

RECURSIVE read_dot_atom_text_loop(_, _)
read_dot_atom_text_loop(buf, i) ==
    IF i < Len(buf)
    THEN IF is_atext(At(buf, i))
         THEN read_dot_atom_text_loop(buf, i + 1)
         ELSE IF At(buf, i) = DOT
              THEN IF i + 1 < Len(buf) /\ is_atext(At(buf, i + 1))
                   THEN read_dot_atom_text_loop(buf, i + 2)
                   ELSE i
              ELSE i
    ELSE i

read_dot_atom_text_end(buf, i) == IF i = 0 THEN ParsingErr ELSE parse_ok(buf, i)

read_dot_atom_text(buf) == read_dot_atom_text_end(buf, read_dot_atom_text_loop(buf, 0))

\* read_atom that leaves the CFWS after the atext run unread
read_atom_tail_no_cfws(buf, i, cfws) == parse_ok(buf, i)

\* the trailing `if let Ok((_, cfws)) = read_cfws(&buf[i..])` of read_atom
read_atom_tail(buf, i, cfws) ==
    IF cfws.kind = "Ok" THEN parse_ok(buf, i + Len(cfws.read)) ELSE parse_ok(buf, i)

\* `let (_, atom) = read_atom_text(&buf[i..])?; i += atom.len();`
read_atom_run(buf, i, atom) ==
    IF atom.kind # "Ok"
    THEN atom
    ELSE read_atom_tail(buf, i + Len(atom.read), read_cfws(From(buf, i + Len(atom.read))))

\* read_atom past its leading [CFWS]
read_atom_at(buf, i) == read_atom_run(buf, i, read_atom_text(From(buf, i)))

read_atom(buf) == read_atom_at(buf, OkLen(read_cfws(buf)))

\* the trailing `if let Ok((_, cfws)) = read_cfws(&buf[i..])` of read_dot_atom
read_dot_atom_tail(buf, i, cfws) ==
    IF cfws.kind = "Ok" THEN parse_ok(buf, i + Len(cfws.read)) ELSE parse_ok(buf, i)

\* `let (_, atom) = read_dot_atom_text(&buf[i..])?; i += atom.len();`
read_dot_atom_run(buf, i, atom) ==
    IF atom.kind # "Ok"
    THEN atom
    ELSE read_dot_atom_tail(buf, i + Len(atom.read),
                            read_cfws(From(buf, i + Len(atom.read))))

\* read_dot_atom past its leading [CFWS]
read_dot_atom_at(buf, i) == read_dot_atom_run(buf, i, read_dot_atom_text(From(buf, i)))

read_dot_atom(buf) == read_dot_atom_at(buf, OkLen(read_cfws(buf)))

\* the trailing `if let Ok((_, cfws)) = read_cfws(&buf[i..])` and parse_ok(buf, i)
parse_atom_tail(buf, i, cfws, w) ==
    IF cfws.kind = "Ok"
    THEN WithW(parse_ok(buf, i + Len(cfws.read)), w)
    ELSE WithW(parse_ok(buf, i), w)

\* parse_atom that writes the leading CFWS along with the atext run
parse_atom_text_with_cfws(buf, i, atom, w) ==
    IF atom.kind # "Ok"
    THEN WithW(atom, w)
    ELSE IF ~Fits(w, Slice(buf, 0, i + Len(atom.read)))
         THEN WithW(IoErr, write_all(w, Slice(buf, 0, i + Len(atom.read))))
         ELSE parse_atom_tail(buf, i + Len(atom.read),
                              read_cfws(From(buf, i + Len(atom.read))),
                              write_all(w, Slice(buf, 0, i + Len(atom.read))))

\* `let (_, atom) = read_atom_text(&buf[i..])?; writer.write_all(atom)?;`
parse_atom_text(buf, i, atom, w) ==
    IF atom.kind # "Ok"
    THEN WithW(atom, w)
    ELSE IF ~Fits(w, atom.read)
         THEN WithW(IoErr, write_all(w, atom.read))
         ELSE parse_atom_tail(buf, i + Len(atom.read),
                              read_cfws(From(buf, i + Len(atom.read))),
                              write_all(w, atom.read))

\* parse_atom past its leading [CFWS]
parse_atom_at(buf, i, w) == parse_atom_text(buf, i, read_atom_text(From(buf, i)), w)

parse_atom(buf, w) == parse_atom_at(buf, OkLen(read_cfws(buf)), w)

\* the trailing `if let Ok((_, cfws)) = read_cfws(&buf[i..])` and parse_ok(buf, i)
parse_dot_atom_tail(buf, i, cfws, w) ==
    IF cfws.kind = "Ok"
    THEN WithW(parse_ok(buf, i + Len(cfws.read)), w)
    ELSE WithW(parse_ok(buf, i), w)

\* `let (_, atom) = read_dot_atom_text(&buf[i..])?; writer.write_all(atom)?;`
parse_dot_atom_text(buf, i, atom, w) ==
    IF atom.kind # "Ok"
    THEN WithW(atom, w)
    ELSE IF ~Fits(w, atom.read)
         THEN WithW(IoErr, write_all(w, atom.read))
         ELSE parse_dot_atom_tail(buf, i + Len(atom.read),
                                  read_cfws(From(buf, i + Len(atom.read))),
                                  write_all(w, atom.read))

\* parse_dot_atom past its leading [CFWS]
parse_dot_atom_at(buf, i, w) ==
    parse_dot_atom_text(buf, i, read_dot_atom_text(From(buf, i)), w)

parse_dot_atom(buf, w) == parse_dot_atom_at(buf, OkLen(read_cfws(buf)), w)

(* ------------------------------- common.rs ----------------------------- *)
is_obs_no_ws_ctl(c) ==
    (c >= 1 /\ c <= 8) \/ c = 11 \/ c = 12 \/ (c >= 14 /\ c <= 31) \/ c = DEL

\* `read_atom(buf).or_else(|e| match *e.kind() { ... })`, atom being what
\* read_atom returned
read_word_or_else(buf, atom) ==
    IF atom.kind = "Ok"
    THEN atom
    ELSE IF atom.kind = "Parsing" THEN read_quoted_string(buf) ELSE atom

read_word(buf) == read_word_or_else(buf, read_atom(buf))

\* a result of a production with alternatives, with the alternatives it called
WithAlts(r, alts) ==
    [kind |-> r.kind, left |-> r.left, read |-> r.read, w |-> r.w, alts |-> alts]

\* parse_word whose or_else falls back to the quoted-string on every error
parse_word_or_else_any(buf, atom) ==
    IF atom.kind = "Ok"
    THEN WithAlts(atom, <<"parse_atom">>)
    ELSE WithAlts(parse_quoted_string(buf, atom.w),
                  <<"parse_atom", "parse_quoted_string">>)

\* `parse_atom(buf, writer).or_else(|e| match *e.kind() { ... })`, atom being
\* what parse_atom returned
parse_word_or_else(buf, atom) ==
    IF atom.kind = "Ok"
    THEN WithAlts(atom, <<"parse_atom">>)
    ELSE IF atom.kind = "Parsing"
         THEN WithAlts(parse_quoted_string(buf, atom.w),
                       <<"parse_atom", "parse_quoted_string">>)
         ELSE WithAlts(atom, <<"parse_atom">>)

parse_word(buf, w) == parse_word_or_else(buf, parse_atom(buf, w))

\* the loop of read_phrase yields [kind, i]: kind is "break" when the loop
\* ended, "Panic" when a parser called in it panicked
RECURSIVE read_phrase_loop(_, _)
\* `else if buf[i] == b'.' { i += 1; } else { break; }`
read_phrase_dot(buf, i) ==
    IF At(buf, i) = DOT
    THEN read_phrase_loop(buf, i + 1)
    ELSE [kind |-> "break", i |-> i]

\* `else if let Ok((_, cfws)) = read_cfws(&buf[i..]) { i += cfws.len(); }`
read_phrase_cfws(buf, i, cfws) ==
    IF cfws.kind = "Ok"
    THEN read_phrase_loop(buf, i + Len(cfws.read))
    ELSE IF cfws.kind = "Panic"
         THEN [kind |-> "Panic", i |-> i]
         ELSE read_phrase_dot(buf, i)

\* `if let Ok((_, word)) = read_word(&buf[i..]) { i += word.len(); }`
read_phrase_word(buf, i, word) ==
    IF word.kind = "Ok"
    THEN read_phrase_loop(buf, i + Len(word.read))
    ELSE IF word.kind = "Panic"
         THEN [kind |-> "Panic", i |-> i]
         ELSE read_phrase_cfws(buf, i, read_cfws(From(buf, i)))

read_phrase_loop(buf, i) ==
    IF i < Len(buf)
    THEN read_phrase_word(buf, i, read_word(From(buf, i)))
    ELSE [kind |-> "break", i |-> i]

\* read_phrase after its loop: `parse_ok(buf, i)`
read_phrase_end(buf, l) ==
    IF l.kind = "break"
    THEN parse_ok(buf, l.i)
    ELSE [kind |-> l.kind, left |-> <<>>, read |-> <<>>]

\* read_phrase without the `?` on its first word: the loop runs even when no
\* word was read
read_phrase_first_unchecked(buf, word) ==
    read_phrase_end(buf, read_phrase_loop(buf, Len(word.read)))

\* `let (_, word) = read_word(buf)?; let mut i = word.len();`
read_phrase_first(buf, word) ==
    IF word.kind = "Ok"
    THEN read_phrase_end(buf, read_phrase_loop(buf, Len(word.read)))
    ELSE word

read_phrase(buf) == read_phrase_first(buf, read_word(buf))

\* the loop of parse_phrase yields [kind, i, w, alts]: kind is "break" when the
\* loop ended, else the kind of the error returned from inside it; alts are the
\* alternatives called at the position where the loop stopped
RECURSIVE parse_phrase_loop(_, _, _)
\* `if buf[i] == b'.' { writer.write_all(&b"."[..])?; i += 1; } else { break; }`
parse_phrase_dot(buf, i, w) ==
    IF At(buf, i) = DOT
    THEN IF Fits(w, <<DOT>>)
         THEN parse_phrase_loop(buf, i + 1, write_all(w, <<DOT>>))
         ELSE [kind |-> "Io", i |-> i, w |-> write_all(w, <<DOT>>),
               alts |-> <<"parse_word", "replace_cfws", "dot">>]
    ELSE [kind |-> "break", i |-> i, w |-> w,
          alts |-> <<"parse_word", "replace_cfws", "dot">>]

\* `match replace_cfws(&buf[i..], writer)` of parse_phrase: a Parsing error is
\* returned, any other error goes on to the literal dot
parse_phrase_cfws(buf, i, cfws) ==
    IF cfws.kind = "Ok"
    THEN parse_phrase_loop(buf, i + Len(cfws.read), cfws.w)
    ELSE IF cfws.kind = "Parsing"
         THEN [kind |-> "Parsing", i |-> i, w |-> cfws.w,
               alts |-> <<"parse_word", "replace_cfws">>]
         ELSE parse_phrase_dot(buf, i, cfws.w)

\* `match parse_word(&buf[i..], writer)` of parse_phrase: a Parsing error is
\* returned, any other error goes on to replace_cfws
parse_phrase_word(buf, i, word) ==
    IF word.kind = "Ok"
    THEN parse_phrase_loop(buf, i + Len(word.read), word.w)
    ELSE IF word.kind = "Parsing"
         THEN [kind |-> "Parsing", i |-> i, w |-> word.w, alts |-> <<"parse_word">>]
         ELSE IF word.kind = "Panic"
              THEN [kind |-> "Panic", i |-> i, w |-> word.w, alts |-> <<"parse_word">>]
              ELSE parse_phrase_cfws(buf, i, replace_cfws(From(buf, i), word.w))

parse_phrase_loop(buf, i, w) ==
    IF i < Len(buf)
    THEN parse_phrase_word(buf, i, parse_word(From(buf, i), w))
    ELSE [kind |-> "break", i |-> i, w |-> w, alts |-> <<>>]

\* parse_phrase after its loop: `parse_ok(buf, i)`, or the error the loop returned
parse_phrase_end(buf, l) ==
    IF l.kind = "break"
    THEN WithAlts(WithW(parse_ok(buf, l.i), l.w), l.alts)
    ELSE WithAlts(WithW([kind |-> l.kind, left |-> <<>>, read |-> <<>>], l.w), l.alts)

\* `let (_, word) = parse_word(buf, writer)?; let mut i = word.len();`
parse_phrase_first(buf, word) ==
    IF word.kind = "Ok"
    THEN parse_phrase_end(buf, parse_phrase_loop(buf, Len(word.read), word.w))
    ELSE WithAlts(word, <<"parse_word">>)

parse_phrase(buf, w) == parse_phrase_first(buf, parse_word(buf, w))

(* ------------------------------ address.rs ----------------------------- *)
\* the guard of the "regular character" arm of parse_domain_literal
is_dtext(c) == is_obs_no_ws_ctl(c) \/ (c >= 33 /\ c <= 90) \/ (c >= 94 /\ c <= 126)

\* `match buf[i]` of parse_domain_literal, i being past the optional FWS and
\* w the writer after it; buf[i] is read without a bounds check
RECURSIVE parse_domain_literal_loop(_, _, _)
parse_domain_literal_dtext(buf, i, w) ==
    IF ~(i < Len(buf))
    THEN [kind |-> "Panic", i |-> i, w |-> w]
    ELSE IF is_dtext(At(buf, i))
         THEN IF Fits(w, <<At(buf, i)>>)
              THEN parse_domain_literal_loop(buf, i + 1, write_all(w, <<At(buf, i)>>))
              ELSE [kind |-> "Io", i |-> i, w |-> write_all(w, <<At(buf, i)>>)]
         ELSE IF At(buf, i) = BACKSLASH
              THEN IF i + 1 < Len(buf) /\ At(buf, i + 1) >= 0 /\ At(buf, i + 1) < 127
                   THEN IF Fits(w, <<At(buf, i + 1)>>)
                        THEN parse_domain_literal_loop(
                                 buf, i + 2, write_all(w, <<At(buf, i + 1)>>))
                        ELSE [kind |-> "Io", i |-> i, w |-> write_all(w, <<At(buf, i + 1)>>)]
                   ELSE [kind |-> "Parsing", i |-> i, w |-> w]
              ELSE [kind |-> "break", i |-> i, w |-> w]

\* `match replace_fws(&buf[i..], writer)` of parse_domain_literal
parse_domain_literal_fws(buf, i, fws) ==
    IF fws.kind = "Io"
    THEN [kind |-> "Io", i |-> i, w |-> fws.w]
    ELSE parse_domain_literal_dtext(buf, i + OkLen(fws), fws.w)

\* the loop "read *([FWS] dtext)" of parse_domain_literal; yields [kind, i, w]
parse_domain_literal_loop(buf, i, w) ==
    IF i < Len(buf)
    THEN parse_domain_literal_fws(buf, i, replace_fws(From(buf, i), w))
    ELSE [kind |-> "break", i |-> i, w |-> w]

\* `if let Ok((_, cfws)) = read_cfws(&buf[i..]) { i += cfws.len(); } parse_ok(buf, i)`
\* inside the `buf[i] == b']'` branch
parse_domain_literal_tail(buf, i, cfws, w) ==
    IF cfws.kind = "Ok"
    THEN WithW(parse_ok(buf, i + Len(cfws.read)), w)
    ELSE WithW(parse_ok(buf, i), w)

\* "read ']' [CFWS]" of parse_domain_literal, i being past the [CFWS] before it
parse_domain_literal_close(buf, i, w) ==
    IF i < Len(buf) /\ At(buf, i) = RBRACKET
    THEN parse_domain_literal_tail(buf, i, read_cfws(From(buf, i)), w)
    ELSE WithW(ParsingErr, w)

\* parse_domain_literal after its loop, l being what the loop yielded
parse_domain_literal_end(buf, l) ==
    IF l.kind = "Io" THEN WithW(IoErr, l.w)
    ELSE IF l.kind = "Panic" THEN WithW(Panic, l.w)
    ELSE IF l.kind = "Parsing" THEN WithW(ParsingErr, l.w)
    ELSE parse_domain_literal_close(buf, l.i + OkLen(read_cfws(From(buf, l.i))), l.w)

\* "read '['" of parse_domain_literal, i being past the leading [CFWS]
parse_domain_literal_open(buf, i, w) ==
    IF i >= Len(buf) \/ At(buf, i) # LBRACKET
    THEN WithW(ParsingErr, w)
    ELSE parse_domain_literal_end(buf, parse_domain_literal_loop(buf, i + 1, w))

parse_domain_literal(buf, w) == parse_domain_literal_open(buf, OkLen(read_cfws(buf)), w)

\* `parse_ok(buf, local_part.len())` on the result of the alternative that ran
parse_new_local_part_end(buf, r, alts) ==
    IF r.kind = "Ok"
    THEN WithAlts(WithW(parse_ok(buf, Len(r.read)), r.w), alts)
    ELSE WithAlts(r, alts)

\* `parse_dot_atom(buf, writer).or_else(|e| match *e.kind() { ... })?`
parse_new_local_part_or_else(buf, dot_atom) ==
    IF dot_atom.kind = "Ok"
    THEN parse_new_local_part_end(buf, dot_atom, <<"parse_dot_atom">>)
    ELSE IF dot_atom.kind = "Parsing"
         THEN parse_new_local_part_end(buf, parse_quoted_string(buf, dot_atom.w),
                                       <<"parse_dot_atom", "parse_quoted_string">>)
         ELSE WithAlts(dot_atom, <<"parse_dot_atom">>)

\* `match parse_word(&buf[i..], writer)` of parse_obsolete_local_part: a Parsing
\* error ends the loop, any other error is returned
RECURSIVE parse_obsolete_local_part_loop(_, _, _)
parse_obsolete_local_part_word(buf, i, word) ==
    IF word.kind = "Ok"
    THEN parse_obsolete_local_part_loop(buf, i + Len(word.read), word.w)
    ELSE IF word.kind = "Parsing"
         THEN WithW(parse_ok(buf, i), word.w)
         ELSE WithW([kind |-> word.kind, left |-> <<>>, read |-> <<>>], word.w)

parse_obsolete_local_part_loop(buf, i, w) ==
    IF i < Len(buf)
    THEN parse_obsolete_local_part_word(buf, i, parse_word(From(buf, i), w))
    ELSE WithW(parse_ok(buf, i), w)

\* `let (_, word) = parse_word(buf, writer)?; let mut i = word.len();`
parse_obsolete_local_part_first(buf, word) ==
    IF word.kind = "Ok"
    THEN parse_obsolete_local_part_loop(buf, Len(word.read), word.w)
    ELSE WithW([kind |-> word.kind, left |-> <<>>, read |-> <<>>], word.w)

parse_obsolete_local_part(buf, w) ==
    parse_obsolete_local_part_first(buf, parse_word(buf, w))

parse_new_local_part(buf, w) == parse_new_local_part_or_else(buf, parse_dot_atom(buf, w))

\* `match parse_dot_atom(buf, writer)` of parse_new_domain
parse_new_domain_match(buf, dot_atom) ==
    IF dot_atom.kind = "Ok"
    THEN WithAlts(WithW(parse_ok(buf, Len(dot_atom.read)), dot_atom.w), <<"parse_dot_atom">>)
    ELSE IF dot_atom.kind = "Parsing"
         THEN WithAlts(parse_domain_literal(buf, dot_atom.w),
                       <<"parse_dot_atom", "parse_domain_literal">>)
         ELSE WithAlts(dot_atom, <<"parse_dot_atom">>)

parse_new_domain(buf, w) == parse_new_domain_match(buf, parse_dot_atom(buf, w))

(* ------------------------------- buffer.rs ----------------------------- *)
\* A Buffer is the pair (inner, position).  Each method is given as the value it
\* returns, [kind, left, read] with the bytes returned in read, and the position
\* it leaves.

\* Err(ErrorKind::Eof.into())
EofErr == [kind |-> "Eof", left |-> <<>>, read |-> <<>>]

\* Ok(&self.inner[start..end])
BufferOk(inner, start, end) ==
    [kind |-> "Ok", left |-> <<>>, read |-> Slice(inner, start, end)]

\* the predicates handed to read_while
Predicates == {"is_atext", "is_wsp"}

ApplyPredicate(f, c) == IF f = "is_atext" THEN is_atext(c) ELSE is_wsp(c)

\* the loop of read_until: the position where it stops
RECURSIVE read_until_loop(_, _, _)
read_until_loop(inner, position, c) ==
    IF position < Len(inner)
    THEN IF At(inner, position) = c
         THEN position
         ELSE read_until_loop(inner, position + 1, c)
    ELSE position

\* read_until: [ret, position]
read_until_end(inner, start, stop) ==
    IF stop < Len(inner)
    THEN [ret |-> BufferOk(inner, start, stop), position |-> stop]
    ELSE [ret |-> EofErr, position |-> stop]

read_until(inner, position, c) ==
    read_until_end(inner, position, read_until_loop(inner, position, c))

\* the loop of read_while: the position where it stops
RECURSIVE read_while_loop(_, _, _)
read_while_loop(inner, position, f) ==
    IF position < Len(inner)
    THEN IF ~ApplyPredicate(f, At(inner, position))
         THEN position
         ELSE read_while_loop(inner, position + 1, f)
    ELSE position

read_while_end(inner, start, stop) ==
    IF stop < Len(inner)
    THEN [ret |-> BufferOk(inner, start, stop), position |-> stop]
    ELSE [ret |-> EofErr, position |-> stop]

read_while(inner, position, f) ==
    read_while_end(inner, position, read_while_loop(inner, position, f))

\* read: the byte read is returned as a one-byte slice
read(inner, position) ==
    IF position < Len(inner)
    THEN [ret |-> BufferOk(inner, position, position + 1), position |-> position + 1]
    ELSE [ret |-> EofErr, position |-> position]

read_n(inner, position, n) ==
    IF position + n < Len(inner)
    THEN [ret |-> BufferOk(inner, position, position + n), position |-> position + n]
    ELSE [ret |-> EofErr, position |-> position]

\* remaining: `&self.inner[self.position..]` panics when the position is past
\* the end of the slice
remaining(inner, position) ==
    IF position <= Len(inner)
    THEN [ret |-> [kind |-> "Ok", left |-> <<>>, read |-> From(inner, position)],
          position |-> position]
    ELSE [ret |-> Panic, position |-> position]

(* --------------------------- the state machine ------------------------- *)
VARIABLES
    op,      \* the parser under test
    buf,     \* the input slice handed to it
    pc,      \* "input" while the caller builds the slice, "done" after the call
    writer,  \* the sink handed to the sink-writing forms
    result,  \* the ParseResult of the call
    alts,    \* the alternatives a production with alternatives called, in order
    position, \* the position of the Buffer built over the input
    call,    \* the last Buffer method called, its argument and the position before it
    frame    \* the locals of read_comment while its loop runs step by step

vars == <<op, buf, pc, writer, result, alts, position, call, frame>>

ReadOps ==
    {"read_fws", "read_comment", "read_cfws", "read_dot_atom_text", "read_qcontent",
     "read_quoted_string", "read_atom", "read_dot_atom", "read_word",
     "read_comment_steps", "read_phrase"}

WriteOps ==
    {"unfold_fws", "replace_cfws", "parse_qcontent", "parse_quoted_string",
     "parse_atom", "parse_word", "parse_new_local_part", "parse_new_domain",
     "parse_phrase", "parse_obsolete_local_part", "parse_domain_literal",
     "replace_fws", "unfold_cfws", "parse_dot_atom"}

\* the Buffer cursor: a constructor, then any sequence of its methods
BufferOps == {"Buffer"}

Ops == ReadOps \cup WriteOps \cup BufferOps

\* the bytes the inputs of each parser are built from
Alphabet(o) ==
    CASE o \in {"read_fws", "unfold_fws", "replace_fws"} -> {SP, HT, CR, LF, LOWER_A}
      [] o \in {"read_comment", "read_comment_steps"} ->
             {LPAREN, RPAREN, BACKSLASH, LOWER_A, SP, NUL, CR}
      [] o \in {"read_cfws", "replace_cfws", "unfold_cfws"} ->
             {SP, CR, LF, LPAREN, RPAREN, BACKSLASH, LOWER_A}
      [] o \in {"parse_qcontent", "read_qcontent"} ->
             {LOWER_A, BACKSLASH, DQUOTE, SP, NUL, DEL, HIGH}
      [] o \in {"parse_quoted_string", "read_quoted_string"} ->
             {DQUOTE, SP, CR, LF, BACKSLASH, LOWER_A, LPAREN, RPAREN}
      [] o \in {"parse_atom", "read_atom", "parse_dot_atom", "read_dot_atom"} ->
             {LOWER_A, DOT, SP, CR, LF, LPAREN, RPAREN}
      [] o = "read_dot_atom_text" -> {LOWER_A, DOT, SP, DQUOTE}
      [] o \in {"parse_word", "read_word", "parse_new_local_part",
                "parse_obsolete_local_part"} ->
             {LOWER_A, DOT, SP, DQUOTE, BACKSLASH, LPAREN, RPAREN}
      [] o \in {"parse_new_domain", "parse_domain_literal"} ->
             {LOWER_A, DOT, SP, LBRACKET, RBRACKET, BACKSLASH}
      [] o \in {"parse_phrase", "read_phrase"} -> {LOWER_A, DOT, SP, DQUOTE, LPAREN, RPAREN}
      [] o = "Buffer" -> {LOWER_A, SP}

Writers(o) ==
    IF o \in WriteOps
    THEN {NewWriter(FALSE, 0)} \cup {NewWriter(TRUE, r) : r \in 0..MaxRoom}
    ELSE {NewWriter(FALSE, 0)}

NoResult == [kind |-> "none", left |-> <<>>, read |-> <<>>]

NoCall == [name |-> "none", arg |-> 0, from |-> 0]

\* read_comment's locals before its loop is entered; prev is the index at the
\* start of the last iteration, iterations the number of iterations done
NoFrame == [i |-> 0, nested_level |-> 0, iterations |-> 0, prev |-> 0]

\* the largest position and argument the Buffer methods are driven with
MaxPosition == MaxLen + 2

Init ==
    /\ op \in Ops
    /\ buf = <<>>
    /\ pc = "input"
    /\ writer \in Writers(op)
    /\ result = NoResult
    /\ alts = <<>>
    /\ position = 0
    /\ call = NoCall
    /\ frame = NoFrame

\* the caller extends the input slice by one byte
Feed ==
    /\ pc = "input"
    /\ Len(buf) < MaxLen
    /\ \E b \in Alphabet(op) : buf' = Append(buf, b)
    /\ UNCHANGED <<op, pc, writer, result, alts, position, call, frame>>

\* a call of a skip form: no sink
Returned(r) ==
    /\ pc' = "done"
    /\ result' = [kind |-> r.kind, left |-> r.left, read |-> r.read]
    /\ UNCHANGED <<op, buf, writer, alts, position, call, frame>>

\* a call of a sink-writing form
ReturnedW(r) ==
    /\ pc' = "done"
    /\ result' = [kind |-> r.kind, left |-> r.left, read |-> r.read]
    /\ writer' = r.w
    /\ UNCHANGED <<op, buf, alts, position, call, frame>>

\* a call of a production with alternatives
ReturnedAlts(r) ==
    /\ pc' = "done"
    /\ result' = [kind |-> r.kind, left |-> r.left, read |-> r.read]
    /\ writer' = r.w
    /\ alts' = r.alts
    /\ UNCHANGED <<op, buf, position, call, frame>>

Call_read_fws == pc = "input" /\ op = "read_fws" /\ Returned(read_fws(buf))

Call_unfold_fws == pc = "input" /\ op = "unfold_fws" /\ ReturnedW(unfold_fws(buf, writer))

Call_read_comment == pc = "input" /\ op = "read_comment" /\ Returned(read_comment(buf))

Call_read_cfws == pc = "input" /\ op = "read_cfws" /\ Returned(read_cfws(buf))

Call_replace_cfws ==
    pc = "input" /\ op = "replace_cfws" /\ ReturnedW(replace_cfws(buf, writer))

Call_parse_qcontent ==
    pc = "input" /\ op = "parse_qcontent" /\ ReturnedW(parse_qcontent(buf, writer))

Call_parse_quoted_string ==
    pc = "input" /\ op = "parse_quoted_string"
    /\ ReturnedW(parse_quoted_string(buf, writer))

Call_parse_atom == pc = "input" /\ op = "parse_atom" /\ ReturnedW(parse_atom(buf, writer))

Call_read_dot_atom_text ==
    pc = "input" /\ op = "read_dot_atom_text" /\ Returned(read_dot_atom_text(buf))

Call_parse_word == pc = "input" /\ op = "parse_word" /\ ReturnedAlts(parse_word(buf, writer))

Call_parse_new_local_part ==
    pc = "input" /\ op = "parse_new_local_part"
    /\ ReturnedAlts(parse_new_local_part(buf, writer))

Call_parse_new_domain ==
    pc = "input" /\ op = "parse_new_domain"
    /\ ReturnedAlts(parse_new_domain(buf, writer))

Call_parse_phrase ==
    pc = "input" /\ op = "parse_phrase" /\ ReturnedAlts(parse_phrase(buf, writer))

Call_parse_obsolete_local_part ==
    pc = "input" /\ op = "parse_obsolete_local_part"
    /\ ReturnedW(parse_obsolete_local_part(buf, writer))

Call_parse_domain_literal ==
    pc = "input" /\ op = "parse_domain_literal"
    /\ ReturnedW(parse_domain_literal(buf, writer))

Call_read_qcontent ==
    pc = "input" /\ op = "read_qcontent" /\ Returned(read_qcontent(buf))

Call_replace_fws ==
    pc = "input" /\ op = "replace_fws" /\ ReturnedW(replace_fws(buf, writer))

Call_unfold_cfws ==
    pc = "input" /\ op = "unfold_cfws" /\ ReturnedW(unfold_cfws(buf, writer))

Call_read_quoted_string ==
    pc = "input" /\ op = "read_quoted_string" /\ Returned(read_quoted_string(buf))

Call_read_atom == pc = "input" /\ op = "read_atom" /\ Returned(read_atom(buf))

Call_read_dot_atom == pc = "input" /\ op = "read_dot_atom" /\ Returned(read_dot_atom(buf))

Call_parse_dot_atom ==
    pc = "input" /\ op = "parse_dot_atom" /\ ReturnedW(parse_dot_atom(buf, writer))

Call_read_word == pc = "input" /\ op = "read_word" /\ Returned(read_word(buf))

Call_read_phrase == pc = "input" /\ op = "read_phrase" /\ Returned(read_phrase(buf))

\* read_comment step by step: the two tests before the loop
ReadComment_enter ==
    /\ pc = "input" /\ op = "read_comment_steps"
    /\ IF Len(buf) < 2 \/ At(buf, 0) # LPAREN
       THEN /\ pc' = "done"
            /\ result' = ParsingErr
            /\ UNCHANGED frame
       ELSE /\ pc' = "loop"
            /\ frame' = [i |-> 1, nested_level |-> 1, iterations |-> 0, prev |-> 0]
            /\ UNCHANGED result
    /\ UNCHANGED <<op, buf, writer, alts, position, call>>

\* one iteration of `while i < buf.len()`
ReadComment_iterate ==
    /\ pc = "loop" /\ frame.i < Len(buf)
    /\ frame' = [i |-> read_comment_body(buf, frame).i,
                 nested_level |-> read_comment_body(buf, frame).nested_level,
                 iterations |-> frame.iterations + 1,
                 prev |-> frame.i]
    /\ IF read_comment_body(buf, frame).returns
       THEN pc' = "done" /\ result' = parse_ok(buf, read_comment_body(buf, frame).i)
       ELSE UNCHANGED <<pc, result>>
    /\ UNCHANGED <<op, buf, writer, alts, position, call>>

\* the loop ends with the input exhausted: `Err(ErrorKind::Parsing.into())`
ReadComment_exit ==
    /\ pc = "loop" /\ ~(frame.i < Len(buf))
    /\ pc' = "done"
    /\ result' = ParsingErr
    /\ UNCHANGED <<op, buf, writer, alts, position, call, frame>>

\* Buffer::new(buf)
Buffer_new ==
    /\ pc = "input" /\ op = "Buffer"
    /\ pc' = "buffer"
    /\ position' = 0
    /\ call' = [name |-> "new", arg |-> 0, from |-> 0]
    /\ UNCHANGED <<op, buf, writer, result, alts, frame>>

\* Buffer::with_offset(buf, offset)
Buffer_with_offset ==
    /\ pc = "input" /\ op = "Buffer"
    /\ \E offset \in 0..MaxPosition :
           /\ position' = offset
           /\ call' = [name |-> "with_offset", arg |-> offset, from |-> 0]
    /\ pc' = "buffer"
    /\ UNCHANGED <<op, buf, writer, result, alts, frame>>

\* a method of the Buffer returned r = [ret, position]
BufferReturned(name, arg, r) ==
    /\ result' = r.ret
    /\ position' = r.position
    /\ call' = [name |-> name, arg |-> arg, from |-> position]
    /\ UNCHANGED <<op, buf, pc, writer, alts, frame>>

\* clone(): the copy has the same slice and the same position
Buffer_clone ==
    /\ pc = "buffer"
    /\ call' = [name |-> "clone", arg |-> 0, from |-> position]
    /\ UNCHANGED <<op, buf, pc, writer, result, alts, position, frame>>

Buffer_read_until ==
    /\ pc = "buffer"
    /\ \E c \in Alphabet(op) : BufferReturned("read_until", c, read_until(buf, position, c))

Buffer_read_while ==
    /\ pc = "buffer"
    /\ \E f \in Predicates : BufferReturned("read_while", f, read_while(buf, position, f))

Buffer_read == pc = "buffer" /\ BufferReturned("read", 0, read(buf, position))

Buffer_read_n ==
    /\ pc = "buffer"
    /\ \E n \in 0..MaxPosition : BufferReturned("read_n", n, read_n(buf, position, n))

Buffer_remaining == pc = "buffer" /\ BufferReturned("remaining", 0, remaining(buf, position))

\* set_position(position)
Buffer_set_position ==
    /\ pc = "buffer"
    /\ \E p \in 0..MaxPosition :
           /\ position' = p
           /\ call' = [name |-> "set_position", arg |-> p, from |-> position]
    /\ UNCHANGED <<op, buf, pc, writer, result, alts, frame>>

\* incr_position(offset)
Buffer_incr_position ==
    /\ pc = "buffer"
    /\ \E offset \in 0..MaxPosition :
           /\ position + offset <= MaxPosition
           /\ position' = position + offset
           /\ call' = [name |-> "incr_position", arg |-> offset, from |-> position]
    /\ UNCHANGED <<op, buf, pc, writer, result, alts, frame>>

Next ==
    \/ Feed
    \/ Call_read_fws
    \/ Call_unfold_fws
    \/ Call_read_comment
    \/ Call_read_cfws
    \/ Call_replace_cfws
    \/ Call_parse_qcontent
    \/ Call_parse_quoted_string
    \/ Call_parse_atom
    \/ Call_read_dot_atom_text
    \/ Call_parse_word
    \/ Call_parse_new_local_part
    \/ Call_parse_new_domain
    \/ Call_parse_phrase
    \/ Call_parse_obsolete_local_part
    \/ Call_parse_domain_literal
    \/ Call_read_qcontent
    \/ Call_replace_fws
    \/ Call_unfold_cfws
    \/ Call_read_quoted_string
    \/ Call_read_atom
    \/ Call_read_dot_atom
    \/ Call_parse_dot_atom
    \/ Call_read_word
    \/ Call_read_phrase
    \/ ReadComment_enter
    \/ ReadComment_iterate
    \/ ReadComment_exit
    \/ Buffer_new
    \/ Buffer_with_offset
    \/ Buffer_clone
    \/ Buffer_read_until
    \/ Buffer_read_while
    \/ Buffer_read
    \/ Buffer_read_n
    \/ Buffer_remaining
    \/ Buffer_set_position
    \/ Buffer_incr_position

Spec == Init /\ [][Next]_vars

TypeOK ==
    /\ op \in Ops
    /\ pc \in {"input", "done", "buffer", "loop"}
    /\ Len(buf) <= MaxLen
    /\ result.kind \in {"none", "Ok", "Parsing", "Io", "Panic", "Eof"}
    /\ position \in 0..MaxPosition

(* ------------------------- the grammar, as claimed --------------------- *)
\* The productions as the claims word them, written over whole prefixes with
\* quantifiers rather than as the parsers' loops.

Done(o) == pc = "done" /\ op = o

Min(S) == CHOOSE x \in S : \A y \in S : x <= y

Max(S) == CHOOSE x \in S : \A y \in S : y <= x

\* b[from..] (1-based), the rest of b after its first `n` bytes
Drop(b, n) == SubSeq(b, n + 1, Len(b))

WSP == {SP, HT}

\* the first k bytes of b are WSP bytes and CRLFs each followed by a WSP byte
FwsBuilt(b, k) ==
    \A j \in 1..k :
        \/ b[j] \in WSP
        \/ b[j] = CR /\ j + 2 <= k /\ b[j + 1] = LF /\ b[j + 2] \in WSP
        \/ b[j] = LF /\ j > 1 /\ b[j - 1] = CR /\ j + 1 <= k /\ b[j + 1] \in WSP

\* the length of the longest such prefix (0: none)
FwsLen(b) == Max({k \in 0..Len(b) : FwsBuilt(b, k)})

\* b starts with a WSP byte, or with CRLF and a WSP byte
StartsFws(b) ==
    \/ Len(b) >= 1 /\ b[1] \in WSP
    \/ Len(b) >= 3 /\ b[1] = CR /\ b[2] = LF /\ b[3] \in WSP

\* byte j of b is escaped: an unescaped backslash stands right before it, the
\* bytes up to `first` not counting (the opening delimiter)
RECURSIVE Escaped(_, _, _)
Escaped(b, first, j) ==
    j > first /\ b[j - 1] = BACKSLASH /\ ~Escaped(b, first, j - 1)

\* unescaped "(" minus unescaped ")" among the first k bytes of a comment
Depth(b, k) ==
    Cardinality({j \in 1..k : b[j] = LPAREN /\ ~Escaped(b, 2, j)})
        - Cardinality({j \in 1..k : b[j] = RPAREN /\ ~Escaped(b, 2, j)})

\* the unescaped ")" that bring the depth back to zero
Closings(b) ==
    {k \in 2..Len(b) : b[k] = RPAREN /\ ~Escaped(b, 2, k) /\ Depth(b, k) = 0}

\* the length of the complete comment b starts with (0: none)
CommentLen(b) ==
    IF Len(b) >= 1 /\ b[1] = LPAREN /\ Closings(b) # {} THEN Min(Closings(b)) ELSE 0

\* b is a sequence of FWS runs and complete comments
RECURSIVE CfwsSegments(_)
CfwsSegments(b) ==
    \/ b = <<>>
    \/ FwsLen(b) > 0 /\ CfwsSegments(Drop(b, FwsLen(b)))
    \/ CommentLen(b) > 0 /\ CfwsSegments(Drop(b, CommentLen(b)))

\* the length of the longest CFWS run b starts with (0: none)
RECURSIVE CfwsLen(_)
CfwsLen(b) ==
    IF FwsLen(b) > 0
    THEN FwsLen(b) + CfwsLen(Drop(b, FwsLen(b)))
    ELSE IF CommentLen(b) > 0
         THEN CommentLen(b) + CfwsLen(Drop(b, CommentLen(b)))
         ELSE 0

\* qtext: US-ASCII but NUL, whitespace, the double quote and the backslash
QTextBytes == (1..127) \ {HT, LF, CR, SP, DQUOTE, BACKSLASH}

\* b with the backslash of every quoted-pair removed
RECURSIVE Unescape(_)
Unescape(b) ==
    IF b = <<>>
    THEN <<>>
    ELSE IF b[1] = BACKSLASH /\ Len(b) >= 2
         THEN <<b[2]>> \o Unescape(Drop(b, 2))
         ELSE <<b[1]>> \o Unescape(Drop(b, 1))

\* the content of a quoted-string as it is meant: a FWS run is one space, a
\* quoted-pair is its escaped byte, any other byte is itself
RECURSIVE Canon(_)
Canon(b) ==
    IF b = <<>>
    THEN <<>>
    ELSE IF FwsLen(b) > 0
         THEN <<SP>> \o Canon(Drop(b, FwsLen(b)))
         ELSE IF b[1] = BACKSLASH /\ Len(b) >= 2
              THEN <<b[2]>> \o Canon(Drop(b, 2))
              ELSE <<b[1]>> \o Canon(Drop(b, 1))

\* atext: ALPHA / DIGIT / ! # $ % & ' * + - / = ? ^ _ ` { | } ~
ATextBytes ==
    (65..90) \cup (97..122) \cup (48..57)
        \cup {33, 35, 36, 37, 38, 39, 42, 43, 45, 47, 61, 63, 94, 95, 96, 123, 124, 125, 126}

\* the length of the run of atext bytes b starts with
AtextRun(b) == Max({k \in 0..Len(b) : \A j \in 1..k : b[j] \in ATextBytes})

\* the writer as it was handed to the call: nothing written, all its room left
WriterAsGiven ==
    [out |-> <<>>, bounded |-> writer.bounded,
     room |-> IF writer.bounded THEN writer.room + Len(writer.out) ELSE 0]

(* -------------------------------- claims ------------------------------- *)
\* C1: read_fws succeeds exactly when the input starts with a WSP byte or with
\* CRLF and a WSP byte; on success it consumes the longest non-empty prefix
\* built from WSP bytes and CRLFs each followed by a WSP byte, and leaves the
\* rest (a CRLF, CR or LF not followed by WSP included) in the remainder.
C1_ReadFwsLongestPrefix ==
    Done("read_fws") =>
        /\ result.kind = "Ok" <=> StartsFws(buf)
        /\ result.kind = "Ok" =>
            /\ result.read # <<>>
            /\ result.read = SubSeq(buf, 1, FwsLen(buf))
            /\ result.left = Drop(buf, FwsLen(buf))

\* C1 witness: a fold was consumed and a CR that starts no fold was left
C1_Witness ==
    /\ Done("read_fws")
    /\ result.kind = "Ok"
    /\ \E j \in 1..Len(result.read) : result.read[j] = CR
    /\ result.left # <<>>
    /\ result.left[1] = CR

\* C2: when unfold_fws succeeds, the sink holds exactly the consumed span with
\* every CRLF removed: each consumed WSP byte once, in order, nothing else.
C2_UnfoldWritesSpanWithoutCrlf ==
    (Done("unfold_fws") /\ result.kind = "Ok") =>
        writer.out = SelectSeq(result.read, LAMBDA c : c \notin {CR, LF})

\* C3: on an input starting with "(", read_comment consumes up to and
\* including the first unescaped ")" that brings the nesting depth back to
\* zero, a backslash escaping exactly the next byte, and returns the bytes
\* after it as the remainder; without such a ")" it fails.
C3_ReadCommentClosesAtDepthZero ==
    (Done("read_comment") /\ Len(buf) >= 1 /\ buf[1] = LPAREN) =>
        IF Closings(buf) = {}
        THEN result.kind = "Parsing"
        ELSE /\ result.kind = "Ok"
             /\ result.read = SubSeq(buf, 1, Min(Closings(buf)))
             /\ result.left = Drop(buf, Min(Closings(buf)))

\* C3 witness: an escaped ")" inside the comment did not close it, and bytes
\* were left after the closing one
C3_Witness ==
    /\ Done("read_comment")
    /\ result.kind = "Ok"
    /\ \E j \in 3..(Len(result.read) - 1) :
           result.read[j] = RPAREN /\ result.read[j - 1] = BACKSLASH
    /\ result.left # <<>>

\* C4: read_cfws succeeds exactly when the input starts with a FWS run or a
\* complete comment; on success the consumed span is a sequence of FWS runs
\* and complete comments and is maximal: the remainder starts with neither.
C4_ReadCfwsMaximalRun ==
    Done("read_cfws") =>
        /\ result.kind = "Ok" <=> (FwsLen(buf) > 0 \/ CommentLen(buf) > 0)
        /\ result.kind # "Ok" => result.kind = "Parsing"
        /\ result.kind = "Ok" =>
            /\ result.read # <<>>
            /\ result.read \o result.left = buf
            /\ CfwsSegments(result.read)
            /\ FwsLen(result.left) = 0
            /\ CommentLen(result.left) = 0

\* C4 witness: a run of a FWS, a comment and a FWS, with bytes left after it
C4_Witness ==
    /\ Done("read_cfws")
    /\ result.kind = "Ok"
    /\ Len(result.read) >= 4
    /\ result.read[1] = SP
    /\ result.read[2] = LPAREN
    /\ result.read[Len(result.read)] = SP
    /\ result.left # <<>>

\* C5: replace_cfws appends exactly one space for a recognized CFWS run of
\* any length (the sink accepting the write) and nothing when no CFWS is
\* recognized; run again on the space it wrote, it consumes that one byte and
\* writes one space again.
C5_ReplaceCfwsOneSpace ==
    Done("replace_cfws") =>
        /\ (FwsLen(buf) = 0 /\ CommentLen(buf) = 0) =>
               result.kind = "Parsing" /\ writer.out = <<>>
        /\ ((FwsLen(buf) > 0 \/ CommentLen(buf) > 0) /\ result.kind # "Io") =>
               result.kind = "Ok" /\ writer.out = <<SP>>
        /\ result.kind = "Ok" =>
               /\ replace_cfws(writer.out, NewWriter(FALSE, 0)).kind = "Ok"
               /\ replace_cfws(writer.out, NewWriter(FALSE, 0)).read = writer.out
               /\ replace_cfws(writer.out, NewWriter(FALSE, 0)).left = <<>>
               /\ replace_cfws(writer.out, NewWriter(FALSE, 0)).w.out = writer.out

\* C5 witness: a run of several bytes with a comment in it became one space
C5_Witness ==
    /\ Done("replace_cfws")
    /\ result.kind = "Ok"
    /\ Len(result.read) >= 3
    /\ \E j \in 1..Len(result.read) : result.read[j] = LPAREN
    /\ writer.out = <<SP>>

\* C6: when parse_qcontent succeeds, the sink holds the consumed span with
\* the backslash of every quoted-pair removed and the escaped byte (0..127)
\* kept in place; the span is made of qtext bytes and quoted-pairs and ends
\* at the first unescaped byte that is not qtext, or at the end of the input.
C6_ParseQcontentUnescapes ==
    (Done("parse_qcontent") /\ result.kind = "Ok") =>
        /\ result.read # <<>>
        /\ result.read \o result.left = buf
        /\ writer.out = Unescape(result.read)
        /\ \A j \in 1..Len(result.read) :
               IF Escaped(result.read, 1, j)
               THEN result.read[j] \in 0..127
               ELSE result.read[j] \in QTextBytes \cup {BACKSLASH}
        /\ ~(/\ result.read[Len(result.read)] = BACKSLASH
             /\ ~Escaped(result.read, 1, Len(result.read)))
        /\ result.left # <<>> => result.left[1] \notin QTextBytes \cup {BACKSLASH}

\* C6 witness: an escaped double quote and an escaped backslash were
\* unescaped, and the span ended at a byte that is not qtext
C6_Witness ==
    /\ Done("parse_qcontent")
    /\ result.kind = "Ok"
    /\ writer.out = <<DQUOTE, BACKSLASH>>
    /\ result.left # <<>>

C8_ParseAtomStripsCfws ==
    Done("parse_atom") =>
        /\ \A a \in 0..Len(buf), c \in 1..Len(buf) :
               (/\ a < c
                /\ CfwsLen(SubSeq(buf, 1, a)) = a
                /\ \A j \in (a + 1)..c : buf[j] \in ATextBytes
                /\ CfwsLen(Drop(buf, c)) = Len(buf) - c
                /\ result.kind # "Io")
               => /\ result.kind = "Ok"
                  /\ result.read = buf
                  /\ result.left = <<>>
                  /\ writer.out = SubSeq(buf, a + 1, c)
        /\ result.kind = "Ok" =>
               LET lead == CfwsLen(buf)
                   run == AtextRun(Drop(buf, lead))
               IN  /\ run > 0
                   /\ writer.out = SubSeq(buf, lead + 1, lead + run)
                   /\ Len(result.read) = lead + run + CfwsLen(Drop(buf, lead + run))
                   /\ result.read \o result.left = buf

\* C8 witness: an atom between a comment and a FWS, consumed whole
C8_Witness ==
    /\ Done("parse_atom")
    /\ result.kind = "Ok"
    /\ buf[1] = LPAREN
    /\ buf[Len(buf)] = SP
    /\ result.left = <<>>
    /\ writer.out = <<LOWER_A>>

\* C9: every span read_dot_atom_text accepts matches 1*atext *("." 1*atext):
\* it starts and ends with an atext byte, holds atext bytes and dots only, no
\* two dots adjacent; a dot not followed by atext is left in the remainder.
C9_DotAtomTextShape ==
    (Done("read_dot_atom_text") /\ result.kind = "Ok") =>
        /\ result.read # <<>>
        /\ result.read \o result.left = buf
        /\ result.read[1] \in ATextBytes
        /\ result.read[Len(result.read)] \in ATextBytes
        /\ \A j \in 1..Len(result.read) : result.read[j] \in ATextBytes \cup {DOT}
        /\ \A j \in 1..(Len(result.read) - 1) :
               ~(result.read[j] = DOT /\ result.read[j + 1] = DOT)
        /\ (Len(result.left) >= 2 /\ result.left[1] = DOT) =>
               result.left[2] \notin ATextBytes

\* C10: in parse_word, parse_new_local_part and parse_new_domain the second
\* alternative is called if and only if the first one failed with a grammar
\* mismatch; when the first one fails on a write (Io), that Io is returned
\* and the second alternative is not called.
C10_FallbackOnlyOnMismatch ==
    (pc = "done" /\ op \in {"parse_word", "parse_new_local_part", "parse_new_domain"}) =>
        LET first == IF op = "parse_word"
                     THEN parse_atom(buf, WriterAsGiven)
                     ELSE parse_dot_atom(buf, WriterAsGiven)
            second == CASE op = "parse_word" -> "parse_quoted_string"
                        [] op = "parse_new_local_part" -> "parse_quoted_string"
                        [] op = "parse_new_domain" -> "parse_domain_literal"
        IN  /\ Len(alts) \in {1, 2}
            /\ alts[1] = IF op = "parse_word" THEN "parse_atom" ELSE "parse_dot_atom"
            /\ Len(alts) = 2 => alts[2] = second
            /\ Len(alts) = 2 <=> first.kind = "Parsing"
            /\ first.kind = "Io" => (result.kind = "Io" /\ Len(alts) = 1)

\* C10 witness: the sink refused the atom's write; parse_word returned Io
\* without calling parse_quoted_string
C10_Witness ==
    /\ Done("parse_word")
    /\ result.kind = "Io"
    /\ alts = <<"parse_atom">>

\* C11: parse_phrase, after its mandatory first word, goes on with a word, a
\* CFWS run or a literal "." at each position, and at the first position where
\* none of the three applies it returns success with the span consumed so far:
\* with a sink that accepts every write, an input that starts with a word is
\* a phrase, and what is left starts with no word, no CFWS and no ".".
C11_PhraseStopsWithSuccess ==
    (/\ Done("parse_phrase")
     /\ ~writer.bounded
     /\ parse_word(buf, WriterAsGiven).kind = "Ok") =>
        /\ result.kind = "Ok"
        /\ result.read \o result.left = buf
        /\ result.left # <<>> =>
            /\ parse_word(result.left, WriterAsGiven).kind # "Ok"
            /\ read_cfws(result.left).kind # "Ok"
            /\ result.left[1] # DOT

\* C12: when the sink refuses a write during an alternative of parse_phrase,
\* parse_phrase returns that Io error and the next alternative is not tried.
\* The sink refuses a write exactly when the call writes, to a sink that
\* accepts everything, more bytes than the sink has room for.
C12_PhraseIoAborts ==
    (/\ Done("parse_phrase")
     /\ writer.bounded
     /\ Len(parse_phrase(buf, NewWriter(FALSE, 0)).w.out) > WriterAsGiven.room) =>
        /\ result.kind = "Io"
        /\ "replace_cfws" \notin {alts[j] : j \in 1..Len(alts)}

\* b is made of atext runs joined by single dots, nothing else
DotJoined(b) ==
    /\ b # <<>>
    /\ \A j \in 1..Len(b) : b[j] \in ATextBytes \cup {DOT}
    /\ b[1] \in ATextBytes
    /\ b[Len(b)] \in ATextBytes
    /\ \A j \in 1..(Len(b) - 1) : ~(b[j] = DOT /\ b[j + 1] = DOT)

\* C13: on a local-part made of atext runs joined by single dots, the strict
\* path (parse_new_local_part) and the word-chain path
\* (parse_obsolete_local_part) both succeed, consume the same number of bytes
\* and write the same bytes to the sink.
C13_StrictAndObsoleteAgree ==
    (Done("parse_obsolete_local_part") /\ ~writer.bounded /\ DotJoined(buf)) =>
        /\ result.kind = "Ok"
        /\ parse_new_local_part(buf, WriterAsGiven).kind = "Ok"
        /\ Len(result.read) = Len(parse_new_local_part(buf, WriterAsGiven).read)
        /\ writer.out = parse_new_local_part(buf, WriterAsGiven).w.out

\* the index of the first "]" of b (0: none)
FirstRBracket(b) ==
    IF \E j \in 1..Len(b) : b[j] = RBRACKET
    THEN Min({j \in 1..Len(b) : b[j] = RBRACKET})
    ELSE 0

\* C14: when parse_domain_literal succeeds, the sink output starts with "["
\* and ends with "]"; a literal without whitespace, comments or quoted-pairs
\* is written to the sink byte for byte, brackets included.
C14_DomainLiteralKeepsBrackets ==
    (Done("parse_domain_literal") /\ result.kind = "Ok") =>
        /\ writer.out # <<>>
        /\ writer.out[1] = LBRACKET
        /\ writer.out[Len(writer.out)] = RBRACKET
        /\ (buf[1] = LBRACKET /\ \A j \in 1..Len(buf) : buf[j] \notin {SP, BACKSLASH}) =>
               writer.out = SubSeq(buf, 1, FirstRBracket(buf))

\* C15: after any sequence of Buffer operations the buffer satisfies
\* 0 <= position <= len(input), so that remaining() is a valid suffix.
C15_BufferPositionInBounds ==
    pc = "buffer" => (0 <= position /\ position <= Len(buf))

\* C16: read_n(n) succeeds whenever at least n bytes remain, returns exactly
\* the next n bytes and advances the position by n; it returns Eof only when
\* fewer than n bytes remain, and then leaves the position unchanged.
C16_ReadNWhenEnoughRemain ==
    (pc = "buffer" /\ call.name = "read_n") =>
        IF call.from + call.arg <= Len(buf)
        THEN /\ result.kind = "Ok"
             /\ result.read = SubSeq(buf, call.from + 1, call.from + call.arg)
             /\ position = call.from + call.arg
        ELSE /\ result.kind = "Eof"
             /\ position = call.from

\* C17: read_comment tells its two failures apart by the kind of the error: an
\* input that starts with "(" and ends before the nesting depth is back to
\* zero fails with Eof, an input whose first byte is not "(" fails with a
\* Token error.
C17_ReadCommentErrorKinds ==
    (Done("read_comment") /\ buf # <<>>) =>
        /\ (buf[1] = LPAREN /\ Closings(buf) = {}) => result.kind = "Eof"
        /\ buf[1] # LPAREN => result.kind = "Token"

\* the qcontent scan of b gets to byte k as a backslash that opens an escape:
\* every byte before it is qtext, a backslash followed by a byte <= 127, or
\* the byte such a backslash escapes
EscapeOpensAt(b, k) ==
    /\ b[k] = BACKSLASH
    /\ ~Escaped(b, 1, k)
    /\ \A j \in 1..(k - 1) :
           \/ Escaped(b, 1, j) /\ b[j] <= 127
           \/ ~Escaped(b, 1, j) /\ (b[j] \in QTextBytes \/ b[j] = BACKSLASH)

\* C18: parse_qcontent and read_qcontent return an error value when the scan
\* meets a backslash that is the last byte of the input, and when it meets a
\* backslash followed by a byte greater than 127.
C18_QcontentBadEscapeIsError ==
    (pc = "done" /\ op \in {"parse_qcontent", "read_qcontent"}) =>
        \A k \in 1..Len(buf) :
            (EscapeOpensAt(buf, k) /\ (k = Len(buf) \/ buf[k + 1] > 127)) =>
                result.kind \in {"Parsing", "Io"}

\* C19: whenever parse_new_local_part or parse_new_domain returns a grammar
\* error, no byte has been appended to the sink.
C19_GrammarErrorLeavesSinkAlone ==
    (/\ pc = "done"
     /\ op \in {"parse_new_local_part", "parse_new_domain"}
     /\ result.kind = "Parsing") =>
        writer.out = <<>>

\* what a call of a form comes to: whether it succeeded and how many bytes it
\* consumed
Outcome(r) == [ok |-> r.kind = "Ok", n |-> OkLen(r)]

\* a sink that never fails
Vec == NewWriter(FALSE, 0)

\* the outcomes of all the forms of the production that o is a form of, on b
FormOutcomes(o, b) ==
    CASE o \in {"read_fws", "unfold_fws", "replace_fws"} ->
             {Outcome(read_fws(b)), Outcome(unfold_fws(b, Vec)), Outcome(replace_fws(b, Vec))}
      [] o \in {"read_cfws", "unfold_cfws", "replace_cfws"} ->
             {Outcome(read_cfws(b)), Outcome(unfold_cfws(b, Vec)),
              Outcome(replace_cfws(b, Vec))}
      [] o \in {"read_qcontent", "parse_qcontent"} ->
             {Outcome(read_qcontent(b)), Outcome(parse_qcontent(b, Vec))}
      [] o \in {"read_quoted_string", "parse_quoted_string"} ->
             {Outcome(read_quoted_string(b)), Outcome(parse_quoted_string(b, Vec))}
      [] o \in {"read_atom", "parse_atom"} ->
             {Outcome(read_atom(b)), Outcome(parse_atom(b, Vec))}
      [] o \in {"read_dot_atom", "parse_dot_atom"} ->
             {Outcome(read_dot_atom(b)), Outcome(parse_dot_atom(b, Vec))}
      [] o \in {"read_word", "parse_word"} ->
             {Outcome(read_word(b)), Outcome(parse_word(b, Vec))}

FormOps ==
    {"read_fws", "unfold_fws", "replace_fws", "read_cfws", "unfold_cfws", "replace_cfws",
     "read_qcontent", "parse_qcontent", "read_quoted_string", "parse_quoted_string",
     "read_atom", "parse_atom", "read_dot_atom", "parse_dot_atom", "read_word",
     "parse_word"}

\* C20: for each production with both forms and for every input, with a sink
\* that never fails, the skip form and the sink-writing forms agree: all
\* succeed or all fail, and on success they consume the same number of bytes.
C20_SkipAndSinkFormsAgree ==
    (pc = "done" /\ op \in FormOps /\ ~writer.bounded) =>
        FormOutcomes(op, buf) = {Outcome(result)}

\* C20 witness: a quoted-string was parsed into a sink that never fails, the
\* output differing from the bytes consumed, and the skip form consumed as many
C20_Witness ==
    /\ Done("parse_quoted_string")
    /\ ~writer.bounded
    /\ result.kind = "Ok"
    /\ writer.out # <<>>
    /\ Len(writer.out) < Len(result.read) - 2
    /\ Outcome(read_quoted_string(buf)) = [ok |-> TRUE, n |-> Len(result.read)]

\* ctext: NO-WS-CTL and the printable US-ASCII bytes but "(", ")" and "\"
CTextBytes ==
    (1..8) \cup {11, 12} \cup (14..31) \cup {DEL}
        \cup (33..39) \cup (42..91) \cup (93..126)

\* byte j of b belongs to a valid FWS: a WSP byte, or the CR or the LF of a
\* CRLF that a WSP byte follows
InFws(b, j) ==
    \/ b[j] \in WSP
    \/ b[j] = CR /\ j + 2 <= Len(b) /\ b[j + 1] = LF /\ b[j + 2] \in WSP
    \/ b[j] = LF /\ j > 1 /\ b[j - 1] = CR /\ j + 1 <= Len(b) /\ b[j + 1] \in WSP

\* C21: read_comment accepts an input only if every unescaped byte between
\* the outermost parentheses is ctext, a parenthesis of a nested comment, the
\* backslash of a quoted-pair, or part of a valid FWS.
C21_ReadCommentBodyIsCcontent ==
    (Done("read_comment") /\ result.kind = "Ok") =>
        \A j \in 2..(Len(result.read) - 1) :
            ~Escaped(result.read, 2, j) =>
                \/ result.read[j] \in CTextBytes \cup {LPAREN, RPAREN, BACKSLASH}
                \/ InFws(result.read, j)

\* C22: read_comment terminates on every finite input: it is a single loop
\* whose index strictly increases at every iteration, so that it makes at most
\* len(input) iterations, an input that ends with a backslash included; the
\* nesting counter stays at least 1 while the loop runs; and the run ends with
\* the result of read_comment.
C22_ReadCommentLoopAdvances ==
    op = "read_comment_steps" =>
        /\ pc = "loop" =>
            /\ frame.nested_level >= 1
            /\ frame.prev < frame.i
            /\ frame.iterations < frame.i
            /\ frame.i <= Len(buf) + 1
        /\ pc = "done" =>
            /\ frame.iterations <= Len(buf)
            /\ result = read_comment(buf)

\* C22 witness: the input ended with a backslash inside a nested comment; the
\* index went past the end of the input and the loop ended
C22_Witness ==
    /\ op = "read_comment_steps"
    /\ pc = "done"
    /\ result.kind = "Parsing"
    /\ frame.nested_level >= 2
    /\ frame.i = Len(buf) + 1
    /\ buf[Len(buf)] = BACKSLASH

\* C23: when parse_domain_literal succeeds, the consumed span covers the whole
\* production [CFWS] "[" *([FWS] dtext) [FWS] "]" [CFWS]: it holds the closing
\* "]" (an unescaped "]" after the "["), and the remainder starts with no CFWS.
C23_DomainLiteralSpanIsWhole ==
    (Done("parse_domain_literal") /\ result.kind = "Ok") =>
        /\ \E j \in 2..Len(result.read) :
               result.read[j] = RBRACKET /\ result.read[j - 1] # BACKSLASH
        /\ CfwsLen(result.left) = 0

\* C24: parse_domain_literal never indexes the input at or past its end: on an
\* input that ends inside the brackets it returns an error value.
C24_DomainLiteralStaysInBounds ==
    Done("parse_domain_literal") => result.kind \in {"Ok", "Parsing", "Io"}

\* the parsers that skip a production, and the forms of them that write to a sink
SkipOps ==
    {"read_fws", "read_comment", "read_cfws", "read_qcontent", "read_quoted_string",
     "read_atom", "read_dot_atom", "read_word", "read_phrase"}

SinkOps ==
    {"unfold_fws", "replace_fws", "replace_cfws", "unfold_cfws", "parse_qcontent",
     "parse_quoted_string", "parse_atom", "parse_dot_atom", "parse_word",
     "parse_phrase"}

\* C25: a successful result (left, read) of a skipping parser or of its
\* sink-writing form splits the input: read is not empty, and read followed by
\* left is the input.
C25_SuccessSplitsInput ==
    (pc = "done" /\ op \in SkipOps \cup SinkOps /\ result.kind = "Ok") =>
        /\ result.read # <<>>
        /\ result.read \o result.left = buf

\* a phrase of several words was read and input is left after it
C25_Witness ==
    /\ Done("read_phrase")
    /\ result.kind = "Ok"
    /\ Len(result.read) >= 3
    /\ result.left # <<>>

\* the byte c stops the search of the last call: it equals the byte handed to
\* read_until, or fails the predicate handed to read_while
Stops(c) ==
    IF call.name = "read_until" THEN c = call.arg ELSE ~ApplyPredicate(call.arg, c)

\* the indices at or after the position before the call that hold a stopping byte
StopsFrom == {k \in call.from..(Len(buf) - 1) : Stops(At(buf, k))}

\* what C26 says of the state after a read_until or a read_while
SearchAsClaimed ==
    /\ position >= call.from
    /\ IF StopsFrom # {}
       THEN /\ result.kind = "Ok"
            /\ position = Min(StopsFrom)
            /\ result.read = Slice(buf, call.from, position)
       ELSE /\ result.kind = "Eof"
            /\ position = Len(buf)

\* C26: read_until and read_while never move the position backwards; when a
\* stopping byte exists at or after the old position they return the bytes
\* between the old position and the first such byte and leave the position on
\* it; when none exists they return Eof and leave the position at len(input).
C26_SearchStopsAtFirstMatch ==
    (pc = "buffer" /\ call.name \in {"read_until", "read_while"}) => SearchAsClaimed

====
